---- MODULE Spec2Model ----
(***************************************************************************)
(* Model of scripts/remove_bg.py: a command-line script that reads an      *)
(* image file, passes its bytes to the external routine rembg.remove and   *)
(* writes the returned bytes to the output path.                           *)
(*                                                                         *)
(* One behaviour of the model is one run of the script.  The initial state *)
(* fixes the command line and the file system the run starts from; every   *)
(* statement of the script that can fail or that has an effect visible     *)
(* from outside (a handle, a file, a stream, the exit code) is one action. *)
(*                                                                         *)
(* Modelling decisions:                                                    *)
(*  - rembg.remove is opaque: it returns any byte string or raises any of  *)
(*    the exception classes in RemoveErrors, chosen nondeterministically.  *)
(*  - open/read/write fail with the OSError the file system state implies  *)
(*    (missing file, missing parent directory, missing permission) or,     *)
(*    for read and write, with a nondeterministic device error.            *)
(*  - every exception raised inside the try block is a subclass of         *)
(*    Exception; asynchronous signals (KeyboardInterrupt) are not part of  *)
(*    the model, and print itself does not fail.                           *)
(*  - a text line is a sequence of string tokens, so that "the line        *)
(*    contains the path" is a property of the line.                        *)
(***************************************************************************)
EXTENDS Integers, Sequences, FiniteSets, TLC

(* ------------------------------ bounds --------------------------------- *)

\* longest byte string held by a file or returned by remove
MaxLen == 2

\* largest number of command-line arguments after the script name
MaxArgs == 3

Byte == {0, 1}

RECURSIVE SeqsUpTo(_, _)
SeqsUpTo(S, n) ==
    IF n = 0 THEN {<<>>}
    ELSE LET shorter == SeqsUpTo(S, n - 1)
         IN  shorter \cup {Append(s, x) : s \in {t \in shorter : Len(t) = n - 1}, x \in S}

Bytes == SeqsUpTo(Byte, MaxLen)

\* the two paths in an existing directory, and one whose parent is missing
Paths == {"a.png", "b.png", "nodir/c.png"}

ScriptName == "remove_bg.py"

Argvs == {<<ScriptName>> \o args : args \in SeqsUpTo(Paths, MaxArgs)}

(* --------------------------- the file system --------------------------- *)

ParentExists(p) == p # "nodir/c.png"

Modes == {"rw", "r", "w"}

Absent == [exists |-> FALSE, data |-> <<>>, mode |-> "rw"]

FileStates == {Absent} \cup [exists : {TRUE}, data : Bytes, mode : Modes]

FileSystems == {f \in [Paths -> FileStates] : \A p \in Paths : ~ParentExists(p) => f[p] = Absent}

(* ------------------------------ exceptions ----------------------------- *)

NoExc == [cls |-> "None", errno |-> "", strerror |-> "", filename |-> ""]

OSErr(cls, errno, strerror, filename) ==
    [cls |-> cls, errno |-> errno, strerror |-> strerror, filename |-> filename]

\* what rembg.remove may raise: the message is args[0], kept in strerror
RemoveErrors ==
    { [cls |-> "UnidentifiedImageError", errno |-> "", strerror |-> "cannot identify image file", filename |-> ""],
      [cls |-> "ValueError", errno |-> "", strerror |-> "unsupported input", filename |-> ""] }

\* the classes of the model that derive from OSError, and from Exception
OSErrorClasses == {"OSError", "FileNotFoundError", "PermissionError", "UnidentifiedImageError"}
ExceptionClasses == OSErrorClasses \cup {"ValueError", "TypeError"}

\* str(e): '[Errno 2] No such file or directory: <repr of filename>' for an
\* OSError with a filename, '[Errno 5] ...' without one, args[0] otherwise
Str(e) ==
    IF e.errno = "" THEN << e.strerror >>
    ELSE IF e.filename = "" THEN << "[Errno ", e.errno, "] ", e.strerror >>
    ELSE << "[Errno ", e.errno, "] ", e.strerror, ": ", "'", e.filename, "'" >>


(* ------------------------- text written by print ----------------------- *)

\* line 33
UsageLine == << "Usage: python remove_bg.py <input_path> <output_path>" >>

\* the success line without the f prefix of its string
SuccessLineLiteral(path) == << "SUCCESS: Background removed and saved to ", "{output_path}" >>

\* line 24: f"SUCCESS: Background removed and saved to {output_path}"
SuccessLine(path) == << "SUCCESS: Background removed and saved to ", path >>

\* an error line that gives the exception's class instead of its message
ErrorLineClassOnly(e) == << "ERROR: ", e.cls >>

\* line 28: f"ERROR: {str(e)}"
ErrorLine(e) == << "ERROR: " >> \o Str(e)

\* what the interpreter prints for an exception nothing catches
TracebackLine(e) == << "Traceback (most recent call last): ", e.cls >> \o Str(e)

(* ------------------------- open, read and write ------------------------ *)

\* open(path, 'rb'): the exception it raises, or NoExc
OpenReadError(f, path) ==
    IF ~ParentExists(path) \/ ~f[path].exists
    THEN OSErr("FileNotFoundError", "2", "No such file or directory", path)
    ELSE IF f[path].mode = "w"
    THEN OSErr("PermissionError", "13", "Permission denied", path)
    ELSE NoExc

\* open(path, 'wb'): the exception it raises, or NoExc
OpenWriteError(f, path) ==
    IF ~ParentExists(path)
    THEN OSErr("FileNotFoundError", "2", "No such file or directory", path)
    ELSE IF f[path].exists /\ f[path].mode = "r"
    THEN OSErr("PermissionError", "13", "Permission denied", path)
    ELSE NoExc

\* a successful open(path, 'wb') creates the file or truncates it
OpenTruncate(f, path) ==
    [f EXCEPT ![path] = [exists |-> TRUE, data |-> <<>>,
                         mode |-> IF f[path].exists THEN f[path].mode ELSE "rw"]]

\* a write that loses the last byte
WriteAllButLast(f, path, data) ==
    [f EXCEPT ![path].data = IF data = <<>> THEN data ELSE SubSeq(data, 1, Len(data) - 1)]

\* output_file.write(data) followed by the close of the with block
WriteAll(f, path, data) == [f EXCEPT ![path].data = data]

\* a write that fails after k bytes reached the file
WritePartial(f, path, data, k) == [f EXCEPT ![path].data = SubSeq(data, 1, k)]

ReadIOError == OSErr("OSError", "5", "Input/output error", "")
WriteIOError == OSErr("OSError", "28", "No space left on device", "")

\* a file opened without a with block, and never closed
NoClose(hs, h) == hs

\* leaving a with block closes its handle, whether or not the body raised
WithExit(handles, h) == handles \ {h}

(* --------------------------- the script's logic ------------------------ *)

\* a check for too few arguments only
ArgcAtLeast(args) == Len(args) >= 3

\* line 32: len(sys.argv) != 3 takes the usage branch
ArgcOK(args) == Len(args) = 3

\* a handler for file errors only
CatchesOSError(e) == e.cls \in OSErrorClasses

\* line 27: except Exception
Catches(e) == e.cls \in ExceptionClasses

\* the failure of the output's open is swallowed
OnRaiseIgnoreOpen(step) == IF step = "open_out" THEN "print_ok" ELSE "except"

\* a failed call of remove is tried again
OnRaiseRetry(step) == IF step = "remove" THEN "remove" ELSE "except"

\* a failed call of remove is ignored and the output is written all the same
OnRaiseIgnoreRemove(step) == IF step = "remove" THEN "open_out" ELSE "except"

\* where control goes when a statement of the try block raises
OnRaise(step) == "except"

\* line 21: the path the output handle is opened on
WriteTarget(inp, outp) == outp

\* line 18: the argument handed to remove
RemoveArg(data) == data

\* line 29
ErrorReturn == 1

\* sys.exit() without the code
ExitStatusDropped(r) == r - r

\* line 40: sys.exit(exit_code)
ExitStatus(r) == r

Unset == << -1 >>
NoCode == -1
NoCall == [arg |-> Unset, ret |-> Unset]

VARIABLES
    argv,         \* sys.argv
    fs,           \* the file system: path -> file state
    fs0,          \* the file system the run started from
    pc,           \* the statement about to run
    input_path, output_path,
    input_data, output_data,
    exc,          \* the exception in flight, or the one the handler got
    handles,      \* the file handles that are open
    stdout, stderr,
    ret,          \* the value remove_background returned
    exit_code,    \* the process's exit status
    remove_call,  \* the argument and the result of the call of remove
    log           \* the steps attempted so far, with their outcome

vars == << argv, fs, fs0, pc, input_path, output_path, input_data, output_data,
           exc, handles, stdout, stderr, ret, exit_code, remove_call, log >>

Ev(step, ok) == [step |-> step, ok |-> ok]

Init ==
    /\ argv \in Argvs
    /\ fs \in FileSystems
    /\ fs0 = fs
    /\ pc = "main"
    /\ input_path = ""
    /\ output_path = ""
    /\ input_data = Unset
    /\ output_data = Unset
    /\ exc = NoExc
    /\ handles = {}
    /\ stdout = <<>>
    /\ stderr = <<>>
    /\ ret = NoCode
    /\ exit_code = NoCode
    /\ remove_call = NoCall
    /\ log = <<>>

\* lines 32-34: wrong argument count
Usage ==
    /\ pc = "main"
    /\ ~ArgcOK(argv)
    /\ stdout' = Append(stdout, UsageLine)
    /\ exit_code' = 1
    /\ pc' = "exited"
    /\ UNCHANGED << argv, fs, fs0, input_path, output_path, input_data, output_data,
                    exc, handles, stderr, ret, remove_call, log >>

\* lines 36-39: bind the two paths and call remove_background
CallRemoveBackground ==
    /\ pc = "main"
    /\ ArgcOK(argv)
    /\ input_path' = argv[2]
    /\ output_path' = argv[3]
    /\ pc' = "open_in"
    /\ UNCHANGED << argv, fs, fs0, input_data, output_data, exc, handles,
                    stdout, stderr, ret, exit_code, remove_call, log >>

\* line 14: open(input_path, 'rb')
OpenInput ==
    /\ pc = "open_in"
    /\ LET e == OpenReadError(fs, input_path)
       IN  IF e = NoExc
           THEN /\ handles' = handles \cup {"input_file"}
                /\ pc' = "read"
                /\ log' = Append(log, Ev("open_in", TRUE))
                /\ exc' = exc
           ELSE /\ exc' = e
                /\ pc' = OnRaise("open_in")
                /\ log' = Append(log, Ev("open_in", FALSE))
                /\ handles' = handles
    /\ UNCHANGED << argv, fs, fs0, input_path, output_path, input_data, output_data,
                    stdout, stderr, ret, exit_code, remove_call >>

\* line 15 and the end of the with block: read everything, close the handle
ReadInput ==
    /\ pc = "read"
    /\ \/ /\ input_data' = fs[input_path].data
          /\ pc' = "remove"
          /\ log' = Append(log, Ev("read", TRUE))
          /\ exc' = exc
       \/ /\ exc' = ReadIOError
          /\ pc' = OnRaise("read")
          /\ log' = Append(log, Ev("read", FALSE))
          /\ input_data' = input_data
    /\ handles' = WithExit(handles, "input_file")
    /\ UNCHANGED << argv, fs, fs0, input_path, output_path, output_data,
                    stdout, stderr, ret, exit_code, remove_call >>

\* line 18: output_data = remove(input_data)
CallRemove ==
    /\ pc = "remove"
    /\ \/ \E r \in Bytes :
            /\ output_data' = r
            /\ remove_call' = [arg |-> RemoveArg(input_data), ret |-> r]
            /\ pc' = "open_out"
            /\ log' = Append(log, Ev("remove", TRUE))
            /\ exc' = exc
       \/ \E e \in RemoveErrors :
            /\ exc' = e
            /\ remove_call' = [arg |-> RemoveArg(input_data), ret |-> Unset]
            /\ pc' = OnRaise("remove")
            /\ log' = Append(log, Ev("remove", FALSE))
            /\ output_data' = output_data
    /\ UNCHANGED << argv, fs, fs0, input_path, output_path, input_data, handles,
                    stdout, stderr, ret, exit_code >>

\* line 21: open(output_path, 'wb')
OpenOutput ==
    /\ pc = "open_out"
    /\ LET target == WriteTarget(input_path, output_path)
           e == OpenWriteError(fs, target)
       IN  IF e = NoExc
           THEN /\ fs' = OpenTruncate(fs, target)
                /\ handles' = handles \cup {"output_file"}
                /\ pc' = "write"
                /\ log' = Append(log, Ev("open_out", TRUE))
                /\ exc' = exc
           ELSE /\ exc' = e
                /\ pc' = OnRaise("open_out")
                /\ log' = Append(log, Ev("open_out", FALSE))
                /\ UNCHANGED << fs, handles >>
    /\ UNCHANGED << argv, fs0, input_path, output_path, input_data, output_data,
                    stdout, stderr, ret, exit_code, remove_call >>

\* line 22 and the end of the with block: write everything, close the handle
WriteOutput ==
    /\ pc = "write"
    /\ LET target == WriteTarget(input_path, output_path)
       IN  \/ /\ fs' = WriteAll(fs, target, output_data)
              /\ pc' = "print_ok"
              /\ log' = Append(log, Ev("write", TRUE))
              /\ exc' = exc
           \/ \E k \in 0..Len(output_data) :
              /\ fs' = WritePartial(fs, target, output_data, k)
              /\ exc' = WriteIOError
              /\ pc' = OnRaise("write")
              /\ log' = Append(log, Ev("write", FALSE))
    /\ handles' = WithExit(handles, "output_file")
    /\ UNCHANGED << argv, fs0, input_path, output_path, input_data, output_data,
                    stdout, stderr, ret, exit_code, remove_call >>

\* lines 24-25: print the success line, return 0
PrintSuccess ==
    /\ pc = "print_ok"
    /\ stdout' = Append(stdout, SuccessLine(output_path))
    /\ ret' = 0
    /\ pc' = "return"
    /\ UNCHANGED << argv, fs, fs0, input_path, output_path, input_data, output_data,
                    exc, handles, stderr, exit_code, remove_call, log >>

\* lines 27-29: the handler; an exception it does not catch ends the process
\* with a traceback and exit status 1
Handler ==
    /\ pc = "except"
    /\ IF Catches(exc)
       THEN /\ stderr' = Append(stderr, ErrorLine(exc))
            /\ ret' = ErrorReturn
            /\ pc' = "return"
            /\ exit_code' = exit_code
       ELSE /\ stderr' = Append(stderr, TracebackLine(exc))
            /\ exit_code' = 1
            /\ pc' = "exited"
            /\ ret' = ret
    /\ UNCHANGED << argv, fs, fs0, input_path, output_path, input_data, output_data,
                    exc, handles, stdout, remove_call, log >>

\* lines 39-40: sys.exit(exit_code)
Exit ==
    /\ pc = "return"
    /\ exit_code' = ExitStatus(ret)
    /\ pc' = "exited"
    /\ UNCHANGED << argv, fs, fs0, input_path, output_path, input_data, output_data,
                    exc, handles, stdout, stderr, ret, remove_call, log >>

Next ==
    \/ Usage
    \/ CallRemoveBackground
    \/ OpenInput
    \/ ReadInput
    \/ CallRemove
    \/ OpenOutput
    \/ WriteOutput
    \/ PrintSuccess
    \/ Handler
    \/ Exit

Spec == Init /\ [][Next]_vars

\* the interpreter runs the script to its end: every enabled statement is taken
FairSpec == Spec /\ WF_vars(Next)


(* ------------------------- vocabulary of the claims -------------------- *)

Succeeded(step) == \E i \in DOMAIN log : log[i] = Ev(step, TRUE)
Failed(step) == \E i \in DOMAIN log : log[i] = Ev(step, FALSE)
Attempted(step) == \E i \in DOMAIN log : log[i].step = step

TwoArgs == Len(argv) = 3
Exited == pc = "exited"

AllSucceeded ==
    /\ Succeeded("open_in") /\ Succeeded("read")
    /\ Succeeded("remove")
    /\ Succeeded("open_out") /\ Succeeded("write")

AnyFailed == \E i \in DOMAIN log : ~log[i].ok

\* the position of a step in the order read, transform, write
StepIndex(step) ==
    CASE step = "open_in" -> 1
      [] step = "read" -> 2
      [] step = "remove" -> 3
      [] step = "open_out" -> 4
      [] step = "write" -> 5

LineMentions(line, path) == \E i \in DOMAIN line : line[i] = path

TheSuccessLine == << "SUCCESS: Background removed and saved to ", argv[3] >>
SuccessPrinted == \E i \in DOMAIN stdout : Head(stdout[i]) = "SUCCESS: Background removed and saved to "
IsErrorLine(line) == Head(line) = "ERROR: "

\* the output path cannot be opened for writing in the initial file system
Unwritable(path) == ~ParentExists(path) \/ (fs0[path].exists /\ fs0[path].mode = "r")

(* -------------------------------- C1 ----------------------------------- *)

\* C1 as stated: a run with two arguments whose read, remove and write all
\* succeed exits with 0, prints the success line with the output path, and
\* leaves a NON-EMPTY file at the output path; the line is printed only once
\* the file is written and closed.
C1_AsStated ==
    /\ (Exited /\ TwoArgs /\ AllSucceeded) =>
          /\ exit_code = 0
          /\ stdout = << TheSuccessLine >>
          /\ fs[argv[3]].exists
          /\ fs[argv[3]].data # <<>>
    /\ SuccessPrinted => (Succeeded("write") /\ "output_file" \notin handles)

\* C1 amended: as above, but the file at the output path holds exactly the
\* bytes remove returned, and so is non-empty exactly when those are.
C1_SuccessRun ==
    /\ (Exited /\ TwoArgs /\ AllSucceeded) =>
          /\ exit_code = 0
          /\ stdout = << TheSuccessLine >>
          /\ fs[argv[3]].exists
          /\ fs[argv[3]].data = remove_call.ret
          /\ (fs[argv[3]].data # <<>>) <=> (remove_call.ret # <<>>)
    /\ SuccessPrinted =>
          /\ TwoArgs
          /\ Succeeded("write")
          /\ "output_file" \notin handles
          /\ fs[argv[3]].data = remove_call.ret

C1_Witness == Exited /\ TwoArgs /\ AllSucceeded /\ fs[argv[3]].data # <<>> /\ exit_code = 0

(* -------------------------------- C2 ----------------------------------- *)

\* C2: once the output file is written, its content is the value remove
\* returned, and remove was called on exactly the bytes the input file held.
C2_OutputIsRemoveResult ==
    (TwoArgs /\ Succeeded("write")) =>
        /\ fs[argv[3]].data = remove_call.ret
        /\ remove_call.arg = fs0[argv[2]].data
        /\ remove_call.arg = input_data

C2_Witness ==
    /\ Exited /\ TwoArgs /\ Succeeded("write")
    /\ Len(remove_call.ret) = 2
    /\ remove_call.ret # fs0[argv[2]].data
    /\ fs0[argv[2]].data # <<>>

(* -------------------------------- C3 ----------------------------------- *)

\* C3: whichever step fails, the run passes through the handler, writes the
\* single line 'ERROR: <str(e)>' to stderr and exits with 1; nothing escapes.
C3_FailureIsCaught ==
    /\ AnyFailed => (pc \in {"except", "return", "exited"} /\ exc # NoExc)
    /\ (AnyFailed /\ pc \in {"return", "exited"}) =>
          /\ stderr = << << "ERROR: " >> \o Str(exc) >>
          /\ stdout = <<>>
          /\ ret = 1
    /\ (AnyFailed /\ Exited) => exit_code = 1

C3_Witness == Exited /\ Failed("remove") /\ exc.cls = "ValueError" /\ exit_code = 1

(* -------------------------------- C4 ----------------------------------- *)

\* C4: with an argument count other than two, the run prints the usage line
\* to stdout and exits with 1, and it touches no file and never calls remove.
C4_Usage ==
    ~TwoArgs =>
        /\ log = <<>>
        /\ fs = fs0
        /\ handles = {}
        /\ remove_call = NoCall
        /\ stderr = <<>>
        /\ pc \in {"main", "exited"}
        /\ Exited => (stdout = << << "Usage: python remove_bg.py <input_path> <output_path>" >> >>
                      /\ exit_code = 1)

C4_Witness == Exited /\ Len(argv) = 4 /\ exit_code = 1

(* -------------------------------- C5 ----------------------------------- *)

\* C5: when no file exists at the input path, the run exits with 1, its one
\* line on stderr mentions that path, and no success line is printed.
C5_MissingInput ==
    (TwoArgs /\ Exited /\ ~fs0[argv[2]].exists) =>
        /\ exit_code = 1
        /\ Len(stderr) = 1
        /\ IsErrorLine(stderr[1])
        /\ LineMentions(stderr[1], argv[2])
        /\ ~SuccessPrinted

C5_Witness == TwoArgs /\ Exited /\ ~fs0[argv[2]].exists /\ ParentExists(argv[2]) /\ Len(stderr) = 1

(* -------------------------------- C6 ----------------------------------- *)

\* C6: when the output path cannot be opened for writing, the run exits with
\* 1 and one error line, without a success line, also when the input was
\* read and remove returned.
C6_UnwritableOutput ==
    (TwoArgs /\ Unwritable(argv[3])) =>
        /\ ~SuccessPrinted
        /\ ~Succeeded("open_out")
        /\ Exited => (exit_code = 1 /\ Len(stderr) = 1 /\ IsErrorLine(stderr[1]))
        /\ (Exited /\ Succeeded("remove")) => (Failed("open_out") /\ fs = fs0)

C6_Witness ==
    /\ TwoArgs /\ Exited /\ ~ParentExists(argv[3])
    /\ Succeeded("read") /\ Succeeded("remove") /\ Failed("open_out")

(* -------------------------------- C7 ----------------------------------- *)

C7_Outcome ==
    /\ Exited => exit_code \in {0, 1}
    /\ (Exited /\ TwoArgs) =>
          \/ /\ exit_code = 0
             /\ stdout = << TheSuccessLine >>
             /\ stderr = <<>>
          \/ /\ exit_code = 1
             /\ stdout = <<>>
             /\ Len(stderr) = 1
             /\ IsErrorLine(stderr[1])
    /\ (Exited /\ TwoArgs) => (exit_code = 0 <=> SuccessPrinted)

\* C7: every run ends, with exit code 0 or 1; a run with two arguments has
\* printed exactly one status line by then, the success line with code 0 or
\* an ERROR line with code 1, and the code is 0 exactly when it is the former.
C7_OneStatusLine == [](C7_Outcome) /\ <>Exited

C7_Witness == Exited /\ TwoArgs /\ exit_code = 1 /\ Failed("write") /\ Len(stderr) = 1

(* -------------------------------- C8 ----------------------------------- *)

\* C8: the input handle is closed before remove is called, the output handle
\* is opened only after remove returned, the two are never open together,
\* and none is open once the try block is left, on any path.
C8_HandlesScoped ==
    /\ Cardinality(handles) <= 1
    /\ handles \subseteq {"input_file", "output_file"}
    /\ "input_file" \in handles <=> pc = "read"
    /\ "output_file" \in handles <=> pc = "write"
    /\ pc = "remove" => (Succeeded("read") /\ handles = {})
    /\ "output_file" \in handles => Succeeded("remove")
    /\ pc \in {"print_ok", "except", "return", "exited"} => handles = {}

C8_Witness == Exited /\ TwoArgs /\ Failed("write") /\ handles = {}

(* -------------------------------- C9 ----------------------------------- *)

\* C9: the steps run at most once each, in the order read, transform, write;
\* nothing runs after a step that failed; the run ends after the last step;
\* and no file but the one at the output path is ever changed.
C9_OncePerStepInOrder ==
    /\ \A i \in DOMAIN log : StepIndex(log[i].step) = i
    /\ \A i \in DOMAIN log : i < Len(log) => log[i].ok
    /\ Len(log) <= 5
    /\ AnyFailed => pc \in {"except", "return", "exited"}
    /\ \A p \in Paths : (~TwoArgs \/ p # argv[3]) => fs[p] = fs0[p]

C9_Witness == Exited /\ TwoArgs /\ Failed("remove") /\ Len(log) = 3 /\ argv[2] # argv[3]

(* -------------------------------- C10 ---------------------------------- *)

\* C10: when the read or remove fails, the output path is never opened and
\* the file system is as the run found it; the file system changes only
\* after remove returned; and the bytes handed to remove are the ones the
\* input file held at the start, also when both paths are the same.
C10_OutputUntouchedOnEarlyFailure ==
    /\ (Failed("open_in") \/ Failed("read") \/ Failed("remove")) =>
          (fs = fs0 /\ ~Attempted("open_out") /\ ~Attempted("write"))
    /\ fs # fs0 => Succeeded("remove")
    /\ Succeeded("read") => input_data = fs0[argv[2]].data
    /\ Attempted("remove") => remove_call.arg = fs0[argv[2]].data

C10_Witness ==
    /\ Exited /\ TwoArgs /\ Failed("remove")
    /\ argv[2] = argv[3]
    /\ fs0[argv[3]].exists /\ fs0[argv[3]].data # <<>>

====
